---- MODULE Spec2Model ----
(***************************************************************************)
(* A model of the dynamic ETL pipeline of src/etl:                         *)
(*   - schema_factory.py   : Record Types synthesised from a schema config *)
(*   - generic_analysis.py : coercion of the oracle's JSON and the three   *)
(*                           validation tiers of analyse_chat_dynamically  *)
(*   - transform_generic.py: the fan-out of one extraction task per        *)
(*                           conversation under the module-level semaphore *)
(*                                                                         *)
(* JSON / Python values are records [t |-> tag, v |-> payload]:            *)
(*   "none"  None             "absent" key not present in a dict           *)
(*   "int"   v an integer     "float"  v the value in tenths (46 is 4.6)   *)
(*   "inf"   float infinity   "nan"    float NaN (pandas' missing value)   *)
(*   "str"   v a sequence of one-character strings                         *)
(*   "dict"  v a function from keys to values ("absent" for missing keys)  *)
(*   "list"  v a sequence of values                                        *)
(*   "ts"    an ISO timestamp text written by the engine, v the clock      *)
(*   "datetime" v the clock, "model" v a validated nested instance         *)
(***************************************************************************)
EXTENDS Integers, Sequences, FiniteSets, TLC

(***************************************************************************)
(* Values                                                                  *)
(***************************************************************************)
None == [t |-> "none", v |-> 0]
Absent == [t |-> "absent", v |-> 0]
NaN == [t |-> "nan", v |-> 0]
Inf == [t |-> "inf", v |-> 0]
PyInt(n) == [t |-> "int", v |-> n]
PyFloat(tenths) == [t |-> "float", v |-> tenths]
PyStr(chars) == [t |-> "str", v |-> chars]
PyDict(f) == [t |-> "dict", v |-> f]
PyList(s) == [t |-> "list", v |-> s]
IsoTimestamp(clk) == [t |-> "ts", v |-> clk]

\* isinstance(x, str), isinstance(x, dict), isinstance(x, (int, float))
IsStr(x) == x.t = "str"
IsDict(x) == x.t = "dict"
IsNumber(x) == x.t \in {"int", "float", "inf", "nan"}

(***************************************************************************)
(* Text: str.strip, str.lower, re.search(r"\d+"), float(), round()         *)
(***************************************************************************)
Digits == <<"0", "1", "2", "3", "4", "5", "6", "7", "8", "9">>

IsDigit(c) == \E i \in 1..10 : Digits[i] = c

DigitValue(c) == (CHOOSE i \in 1..10 : Digits[i] = c) - 1

IsSpace(c) == c = " "

\* str.lower on the letters the model's texts use in upper case
Lower(c) ==
  CASE c = "V" -> "v"
    [] c = "S" -> "s"
    [] c = "N" -> "n"
    [] c = "I" -> "i"
    [] c = "M" -> "m"
    [] c = "T" -> "t"
    [] OTHER -> c

LowerStr(s) == [i \in 1..Len(s) |-> Lower(s[i])]

RECURSIVE LStrip(_)
LStrip(s) == IF s # <<>> /\ IsSpace(Head(s)) THEN LStrip(Tail(s)) ELSE s

RECURSIVE RStrip(_)
RStrip(s) ==
  IF s # <<>> /\ IsSpace(s[Len(s)]) THEN RStrip(SubSeq(s, 1, Len(s) - 1)) ELSE s

\* str.strip()
Strip(s) == RStrip(LStrip(s))

\* int(text) of a run of decimal digits
RECURSIVE DigitsToInt(_)
DigitsToInt(s) ==
  IF s = <<>> THEN 0
  ELSE 10 * DigitsToInt(SubSeq(s, 1, Len(s) - 1)) + DigitValue(s[Len(s)])

\* the longest prefix of s made of digits
RECURSIVE DigitPrefix(_)
DigitPrefix(s) ==
  IF s # <<>> /\ IsDigit(Head(s)) THEN <<Head(s)>> \o DigitPrefix(Tail(s)) ELSE <<>>

\* re.search(r"\d+", s): the first maximal run of digits, <<>> when there is none
RECURSIVE FirstDigitRun(_)
FirstDigitRun(s) ==
  IF s = <<>> THEN <<>>
  ELSE IF IsDigit(Head(s)) THEN DigitPrefix(s)
  ELSE FirstDigitRun(Tail(s))

AllDigits(s) == \A i \in 1..Len(s) : IsDigit(s[i])

\* round(): half to even, on a value given as whole part + fraction digits
RoundHalfEven(whole, frac) ==
  LET first == IF frac = <<>> THEN 0 ELSE DigitValue(frac[1])
      restZero == \A i \in 2..Len(frac) : frac[i] = "0"
  IN  IF first > 5 \/ (first = 5 /\ ~restZero) THEN whole + 1
      ELSE IF first = 5 THEN (IF whole % 2 = 0 THEN whole ELSE whole + 1)
      ELSE whole

\* int(round(x)) of a float held in tenths
RoundTenths(n) ==
  LET a == IF n < 0 THEN -n ELSE n
      r == RoundHalfEven(a \div 10, <<Digits[(a % 10) + 1]>>)
  IN  IF n < 0 THEN -r ELSE r

INF == <<"i", "n", "f">>
INFINITY == <<"i", "n", "f", "i", "n", "i", "t", "y">>
NAN == <<"n", "a", "n">>

(***************************************************************************)
(* float(text) followed by int(round(...)), as one result:                 *)
(*   [k |-> "value", n |-> the rounded integer]                            *)
(*   [k |-> "ValueError"]    float() rejects the text, or the value is NaN *)
(*   [k |-> "OverflowError"] the value is infinite: round() raises         *)
(* float() strips white space and accepts a sign, then inf, infinity, nan  *)
(* (any case) or digits with an optional fraction.  Exponents and digit    *)
(* separators are not part of the model's texts.                           *)
(***************************************************************************)
FloatRound(text) ==
  LET s == Strip(text)
      signed == s # <<>> /\ Head(s) \in {"-", "+"}
      neg == s # <<>> /\ Head(s) = "-"
      body == IF signed THEN Tail(s) ELSE s
      low == LowerStr(body)
      whole == DigitPrefix(body)
      rest == SubSeq(body, Len(whole) + 1, Len(body))
      frac == IF rest # <<>> /\ Head(rest) = "." THEN Tail(rest) ELSE <<>>
      wellFormed == /\ (rest = <<>> \/ Head(rest) = ".")
                    /\ AllDigits(frac)
                    /\ Len(whole) + Len(frac) > 0
      r == RoundHalfEven(DigitsToInt(whole), frac)
  IN  IF low \in {INF, INFINITY} THEN [k |-> "OverflowError", n |-> 0]
      ELSE IF low = NAN THEN [k |-> "ValueError", n |-> 0]
      ELSE IF wellFormed THEN [k |-> "value", n |-> IF neg THEN -r ELSE r]
      ELSE [k |-> "ValueError", n |-> 0]

\* max(1, min(5, num))
Clamp(n) == IF n < 1 THEN 1 ELSE IF n > 5 THEN 5 ELSE n

(***************************************************************************)
(* Texts used as inputs                                                    *)
(***************************************************************************)
TxtVerySatisfied == <<"v", "e", "r", "y", " ", "s", "a", "t", "i", "s", "f", "i", "e", "d">>
TxtVerySatisfiedPadded == <<" ", "V", "e", "r", "y", " ", "S", "a", "t", "i", "s", "f", "i", "e", "d", " ">>
TxtNeutral == <<"n", "e", "u", "t", "r", "a", "l">>
TxtNotARating == <<"n", "o", "t", " ", "a", " ", "r", "a", "t", "i", "n", "g">>
TxtRated4Of5 == <<"r", "a", "t", "e", "d", " ", "4", " ", "o", "f", " ", "5">>
Txt4_6 == <<"4", ".", "6">>
Txt2_5 == <<"2", ".", "5">>
Txt7 == <<"7">>
Txt3 == <<"3">>
Txt0 == <<"0">>
TxtMinus3 == <<"-", "3">>
TxtInf == <<"i", "n", "f">>
TxtNan == <<"n", "a", "n">>
TxtEmpty == <<>>
TxtBlank == <<" ", " ">>
TxtHello == <<"h", "i">>
TxtMIT == <<"M", "I", "T">>
TxtClassOf2020 == <<"c", "l", "a", "s", "s", " ", "o", "f", " ", "2", "0", "2", "0">>
TxtPhone == <<"5", "5", "5">>
OracleEmail == <<"o", "@", "x", ".", "i", "o">>
RowEmail == <<"r", "@", "x", ".", "i", "o">>
PLACEHOLDER_EMAIL == <<"u", "n", "k", "n", "o", "w", "n", "@", "e", "x", "a", "m", "p", "l", "e", ".", "c", "o", "m">>

\* "x".strip() == "" : the text is empty or white space only
IsBlank(chars) == Strip(chars) = <<>>

(***************************************************************************)
(* generic_analysis.LIKERT_STRING_TO_INT_MAP: the English keys and the     *)
(* numerals.  The Arabic keys of the table are looked up the same way.     *)
(***************************************************************************)
LIKERT_STRING_TO_INT_MAP ==
  <<<<<<"n", "o", "t", " ", "s", "a", "t", "i", "s", "f", "i", "e", "d", " ", "a", "t", " ", "a", "l", "l">>, 1>>,
    <<<<"s", "o", "m", "e", "w", "h", "a", "t", " ", "d", "i", "s", "s", "a", "t", "i", "s", "f", "i", "e", "d">>, 2>>,
    <<<<"v", "e", "r", "y", "_", "d", "i", "s", "s", "a", "t", "i", "s", "f", "i", "e", "d">>, 1>>,
    <<<<"d", "i", "s", "a", "g", "r", "e", "e">>, 2>>,
    <<<<"n", "e", "u", "t", "r", "a", "l">>, 3>>,
    <<<<"s", "a", "t", "i", "s", "f", "i", "e", "d">>, 4>>,
    <<<<"a", "g", "r", "e", "e">>, 4>>,
    <<<<"v", "e", "r", "y", " ", "s", "a", "t", "i", "s", "f", "i", "e", "d">>, 5>>,
    <<<<"v", "e", "r", "y", "_", "s", "a", "t", "i", "s", "f", "i", "e", "d">>, 5>>,
    <<<<"w", "e", "a", "k">>, 2>>,
    <<<<"p", "o", "o", "r">>, 2>>,
    <<<<"v", "e", "r", "y", "_", "p", "o", "o", "r">>, 1>>,
    <<<<"f", "a", "i", "r">>, 3>>,
    <<<<"v", "e", "r", "y", "_", "g", "o", "o", "d">>, 5>>,
    <<<<"v", "e", "r", "y", "_", "b", "a", "d">>, 1>>,
    <<<<"1">>, 1>>,
    <<<<"2">>, 2>>,
    <<<<"3">>, 3>>,
    <<<<"4">>, 4>>,
    <<<<"5">>, 5>>>>

\* LIKERT_STRING_TO_INT_MAP.get(key): the mapped value, 0 standing for None
LikertMapGet(key) ==
  LET hits == {i \in 1..Len(LIKERT_STRING_TO_INT_MAP) : LIKERT_STRING_TO_INT_MAP[i][1] = key}
  IN  IF hits = {} THEN 0 ELSE LIKERT_STRING_TO_INT_MAP[CHOOSE i \in hits : TRUE][2]

(***************************************************************************)
(* schema_factory.parse_arabic_likert_string: the BeforeValidator of the   *)
(* Likert type.  A float is rounded and clamped; a text holding a run of   *)
(* digits gives that number clamped; every other value, an int included,   *)
(* is returned as it came.                                                 *)
(***************************************************************************)
parse_arabic_likert_string(value) ==
  IF value.t = "float" THEN PyInt(Clamp(RoundTenths(value.v)))
  ELSE IF IsStr(value) /\ FirstDigitRun(value.v) # <<>>
       THEN PyInt(Clamp(DigitsToInt(FirstDigitRun(value.v))))
  ELSE value

(***************************************************************************)
(* Schema configs (the YAML "schema" section) and create_dynamic_model     *)
(***************************************************************************)
\* a config entry: a type string, or a nested map
TypeTag(tag) == [kind |-> "str", tag |-> tag, sub |-> <<>>]
NestedMap(cfg) == [kind |-> "dict", tag |-> "", sub |-> cfg]

OptionalTags == {"int | None", "str | None", "datetime | None", "EmailStr | None", "Likert | None"}

\* "| None" in type_str
HasNoneMarker(tag) == tag \in OptionalTags

\* type_str.replace("| None", "").strip()
BaseOfTag(tag) ==
  CASE tag \in {"int", "int | None"} -> "int"
    [] tag \in {"str", "str | None"} -> "str"
    [] tag \in {"datetime", "datetime | None"} -> "datetime"
    [] tag \in {"EmailStr", "EmailStr | None"} -> "EmailStr"
    [] tag \in {"Likert", "Likert | None"} -> "Likert"

(***************************************************************************)
(* _parse_type_string: the type a tag resolves to.  TYPE_MAP["Likert"] is  *)
(* Annotated[Likert, BeforeValidator(...)], so the resolved type of a      *)
(* rating tag is "Annotated[Likert]"; "| None" wraps the type in Optional. *)
(***************************************************************************)
parse_type_string(tag) ==
  [opt |-> HasNoneMarker(tag),
   base |-> IF BaseOfTag(tag) = "Likert" THEN "Annotated[Likert]" ELSE BaseOfTag(tag)]

\* str(v) of a config entry contains "| None": for a nested map, str() prints
\* the whole sub-tree, so any descendant's marker is found
RECURSIVE StrContainsNoneMarker(_)
StrContainsNoneMarker(entry) ==
  IF entry.kind = "str" THEN HasNoneMarker(entry.tag)
  ELSE \E k \in DOMAIN entry.sub : StrContainsNoneMarker(entry.sub[k])

\* all("| None" in str(v) for v in type_info.values()) if type_info else True
is_nested_optional(type_info) ==
  \A k \in DOMAIN type_info : StrContainsNoneMarker(type_info[k])

(***************************************************************************)
(* create_dynamic_model: model_fields, one FieldInfo per config entry.     *)
(*   annotation.opt  the annotation is Optional[...]                       *)
(*   annotation.base the type; pydantic moves the top-level Annotated of a *)
(*                   field into its metadata, so a required rating field   *)
(*                   has the annotation Likert, while an optional one      *)
(*                   keeps Optional[Annotated[Likert, ...]]                *)
(*   annotation.sub  the model_fields of a nested model                    *)
(*   required        FieldInfo.is_required(): no default                   *)
(*   default         "None", or "dict" for Field(default_factory=dict)     *)
(***************************************************************************)
RECURSIVE create_dynamic_model(_)
create_dynamic_model(schema_config) ==
  [field_name \in DOMAIN schema_config |->
    LET type_info == schema_config[field_name]
    IN  IF type_info.kind = "dict"
        THEN LET opt == is_nested_optional(type_info.sub)
             IN  [annotation |-> [opt |-> opt, base |-> "model",
                                  sub |-> create_dynamic_model(type_info.sub)],
                  required |-> FALSE,
                  default |-> IF opt THEN "None" ELSE "dict"]
        ELSE LET parsed == parse_type_string(type_info.tag)
             IN  [annotation |-> [opt |-> parsed.opt,
                                  base |-> IF ~parsed.opt /\ parsed.base = "Annotated[Likert]"
                                           THEN "Likert" ELSE parsed.base,
                                  sub |-> <<>>],
                  required |-> ~HasNoneMarker(type_info.tag),
                  default |-> "None"]]

\* DynamicModel.model_fields.get(key): the FieldInfo, or NoField for None
NoField == [annotation |-> [opt |-> FALSE, base |-> "nofield", sub |-> <<>>],
            required |-> FALSE, default |-> "None"]

FieldGet(fields, key) == IF key \in DOMAIN fields THEN fields[key] ELSE NoField

\* hasattr(DynamicModel, name): pydantic keeps fields in model_fields and
\* removes them from the class namespace, so no field name is a class attribute
HasClassAttr(fields, name) == FALSE

\* annotation.__args__ of an Optional[...] annotation, () otherwise
TypeArgs(annotation) ==
  IF annotation.opt THEN {annotation.base, "NoneType"} ELSE {}

\* generic_analysis.py 77-86: is_direct_likert or is_optional_likert
is_likert_field(field_info) ==
  LET actual_type == field_info.annotation
      is_direct_likert == ~actual_type.opt /\ actual_type.base = "Likert"
      is_optional_likert == /\ actual_type.opt
                            /\ "Likert" \in TypeArgs(actual_type)
                            /\ "NoneType" \in TypeArgs(actual_type)
  IN  is_direct_likert \/ is_optional_likert

\* hasattr(field_info.annotation, 'model_fields'): true of a model class,
\* false of Optional[model class] (a typing.Union alias has no such attribute)
HasModelFields(annotation) == annotation.base = "model" /\ ~annotation.opt

(***************************************************************************)
(* generic_analysis._coerce_llm_output                                     *)
(***************************************************************************)
\* key in d
HasKey(d, key) == key \in DOMAIN d /\ d[key].t # "absent"

\* d.get(key) is None
GetIsNone(d, key) == ~HasKey(d, key) \/ d[key].t = "none"

\* _blank_to_none (generic_analysis.py 63-69)
RECURSIVE blank_to_none(_, _)
blank_to_none(x, field_info) ==
  IF IsStr(x) /\ IsBlank(x.v) THEN None
  ELSE IF /\ IsDict(x)
          /\ field_info.annotation.base # "nofield"
          /\ HasModelFields(field_info.annotation)
       THEN PyDict([k_n \in DOMAIN x.v |->
                     IF x.v[k_n].t = "absent" THEN Absent
                     ELSE blank_to_none(x.v[k_n],
                                        FieldGet(field_info.annotation.sub, k_n))])
  ELSE x

Coerced(value) == [exc |-> "none", val |-> value]
CoercionRaises(exception) == [exc |-> exception, val |-> None]

(***************************************************************************)
(* The rating block (generic_analysis.py 88-117) for one field value.      *)
(* A text is looked up stripped and lower-cased in the phrase table, then  *)
(* tried as float(); a number is rounded; a result outside 1..5, or no     *)
(* result, stores _blank_to_none(value).  Only ValueError (and TypeError   *)
(* for numbers) is caught: round() of an infinite float raises             *)
(* OverflowError out of the function.                                      *)
(***************************************************************************)
coerce_likert(current_value, field_info) ==
  IF IsStr(current_value)
  THEN LET mapped_value == LikertMapGet(LowerStr(Strip(current_value.v)))
           num == FloatRound(current_value.v)
       IN  IF mapped_value # 0 THEN Coerced(PyInt(mapped_value))
           ELSE IF num.k = "OverflowError" THEN CoercionRaises("OverflowError")
           ELSE IF num.k = "value" /\ 1 <= num.n /\ num.n <= 5 THEN Coerced(PyInt(num.n))
           ELSE Coerced(blank_to_none(current_value, field_info))
  ELSE IF current_value.t = "int"
  THEN IF 1 <= current_value.v /\ current_value.v <= 5
       THEN Coerced(current_value)
       ELSE Coerced(blank_to_none(current_value, field_info))
  ELSE IF current_value.t = "float"
  THEN LET num_val == RoundTenths(current_value.v)
       IN  IF 1 <= num_val /\ num_val <= 5 THEN Coerced(PyInt(num_val))
           ELSE Coerced(blank_to_none(current_value, field_info))
  ELSE IF current_value.t = "inf" THEN CoercionRaises("OverflowError")
  ELSE Coerced(blank_to_none(current_value, field_info))

\* the digits of a text, in order: re.sub(r"[^0-9]", "", s)
DigitsOnly(s) == SelectSeq(s, IsDigit)

\* the graduation_year repair (generic_analysis.py 122-137): str(value), keep
\* the digits, int() of them; None when no digit is left.  str() of a float
\* prints whole part and fraction, so its digits are those of the tenths.
coerce_graduation_year(grad_year) ==
  CASE grad_year.t = "none" -> None
    [] grad_year.t = "int" ->
         PyInt(IF grad_year.v < 0 THEN -grad_year.v ELSE grad_year.v)
    [] grad_year.t = "float" ->
         PyInt(IF grad_year.v < 0 THEN -grad_year.v ELSE grad_year.v)
    [] grad_year.t = "str" ->
         IF DigitsOnly(grad_year.v) # <<>> THEN PyInt(DigitsToInt(DigitsOnly(grad_year.v)))
         ELSE None
    [] OTHER -> None

\* the phone repair (generic_analysis.py 141-147): a list gives str() of its
\* first element, or None when empty
coerce_phone(phone_val) ==
  IF phone_val.t = "list"
  THEN IF phone_val.v # <<>> THEN phone_val.v[1] ELSE None
  ELSE phone_val

\* one iteration of the loop over data.items() for a declared key
coerce_field(key, current_value, field_info) ==
  IF is_likert_field(field_info) THEN coerce_likert(current_value, field_info)
  ELSE IF key = "education" /\ IsDict(current_value) /\ HasKey(current_value.v, "graduation_year")
  THEN Coerced(blank_to_none(
         PyDict([current_value.v EXCEPT
                   !["graduation_year"] = coerce_graduation_year(@)]), field_info))
  ELSE IF key = "contact_info" /\ IsDict(current_value) /\ HasKey(current_value.v, "phone")
  THEN Coerced(blank_to_none(
         PyDict([current_value.v EXCEPT !["phone"] = coerce_phone(@)]), field_info))
  ELSE Coerced(blank_to_none(current_value, field_info))

\* the rename of a generic "email" key (generic_analysis.py 58-59)
RenameEmail(data, fields) ==
  IF HasKey(data, "email") /\ ~HasKey(data, "user_email") /\ HasClassAttr(fields, "user_email")
  THEN [data EXCEPT !["user_email"] = data["email"], !["email"] = Absent]
  ELSE data

\* _coerce_llm_output: [exc, data].  json.loads raises on a text that is not
\* JSON; keys the model does not declare are dropped.
coerce_llm_output(raw_json, fields) ==
  IF raw_json.t # "dict" THEN [exc |-> "JSONDecodeError", data |-> <<>>]
  ELSE LET data == RenameEmail(raw_json.v, fields)
           declared == {key \in DOMAIN data : HasKey(data, key) /\ key \in DOMAIN fields}
           one(key) == coerce_field(key, data[key], fields[key])
       IN  IF \E key \in declared : one(key).exc # "none"
           THEN [exc |-> "OverflowError", data |-> <<>>]
           ELSE [exc |-> "none",
                 data |-> [key \in DOMAIN data |->
                            IF key \in declared THEN one(key).val ELSE Absent]]

(***************************************************************************)
(* DynamicModel.model_validate, as pydantic validates the types the schema *)
(* factory produces:                                                       *)
(*   None            valid exactly for an Optional annotation              *)
(*   int             an int, an integral float, a text of digits           *)
(*   str             a text                                                *)
(*   EmailStr        a text with a local part, "@" and a dotted domain     *)
(*   datetime        an ISO text, or a number / text of digits (epoch)     *)
(*   Likert          parse_arabic_likert_string first, then a member of    *)
(*                   the enum: an integer in 1..5                          *)
(*   nested model    a dict that validates against the nested fields       *)
(* A missing key takes the field's default, and fails a required field.    *)
(* Keys that are not fields are ignored.                                   *)
(***************************************************************************)
IsEmail(chars) ==
  /\ \A i \in 1..Len(chars) : ~IsSpace(chars[i])
  /\ \E i \in 2..Len(chars) - 1 :
       /\ chars[i] = "@"
       /\ \A j \in 1..Len(chars) : chars[j] = "@" => j = i
       /\ \E j \in i + 2..Len(chars) - 1 : chars[j] = "."

Valid(value) == [ok |-> TRUE, val |-> value]

\* a bug: any value passes for a rating
LikertMemberAny(x) == TRUE

\* models.Likert, an int enum: its members are the integers 1..5
LikertMember(x) == x.t = "int" /\ 1 <= x.v /\ x.v <= 5
Invalid == [ok |-> FALSE, val |-> None]
EmptyDict == [t |-> "emptydict", v |-> 0]

RECURSIVE model_validate(_, _)
RECURSIVE validate_value(_, _)
validate_value(annotation, x) ==
  IF x.t = "none" THEN (IF annotation.opt THEN Valid(None) ELSE Invalid)
  ELSE CASE annotation.base = "int" ->
              IF x.t = "int" THEN Valid(x)
              ELSE IF x.t = "float" /\ x.v % 10 = 0 THEN Valid(PyInt(x.v \div 10))
              ELSE IF IsStr(x) /\ x.v # <<>> /\ AllDigits(x.v) THEN Valid(PyInt(DigitsToInt(x.v)))
              ELSE Invalid
         [] annotation.base = "str" -> IF IsStr(x) THEN Valid(x) ELSE Invalid
         [] annotation.base = "EmailStr" ->
              IF IsStr(x) /\ IsEmail(x.v) THEN Valid(x) ELSE Invalid
         [] annotation.base = "datetime" ->
              IF x.t = "ts" THEN Valid([t |-> "datetime", v |-> x.v])
              ELSE IF x.t \in {"int", "float"} THEN Valid([t |-> "datetime", v |-> -1])
              ELSE IF IsStr(x) /\ x.v # <<>> /\ AllDigits(x.v)
                   THEN Valid([t |-> "datetime", v |-> -1])
              ELSE Invalid
         [] annotation.base \in {"Likert", "Annotated[Likert]"} ->
              LET parsed == parse_arabic_likert_string(x)
              IN  IF LikertMember(parsed) THEN Valid(parsed) ELSE Invalid
         [] annotation.base = "model" ->
              IF IsDict(x)
              THEN LET nested == model_validate(annotation.sub, x.v)
                   IN  IF nested.ok THEN Valid([t |-> "model", v |-> nested.inst])
                       ELSE Invalid
              ELSE Invalid
         [] OTHER -> Invalid

model_validate(fields, data) ==
  LET res == [f \in DOMAIN fields |->
               IF HasKey(data, f) THEN validate_value(fields[f].annotation, data[f])
               ELSE IF fields[f].required THEN Invalid
               ELSE Valid(IF fields[f].default = "dict" THEN EmptyDict ELSE None)]
  IN  [ok |-> \A f \in DOMAIN fields : res[f].ok,
       inst |-> [f \in DOMAIN fields |-> res[f].val]]

(***************************************************************************)
(* analyse_chat_dynamically: the data each tier validates                  *)
(* row is chat_df.iloc[0]: [chat_id, user_email]; clk is utcnow().         *)
(***************************************************************************)
\* pd.notna(x)
NotNa(x) == x.t \notin {"nan", "none"}

\* "user_email" in model_fields and not model_fields["user_email"].is_required() is False
UserEmailRequired(fields) == "user_email" \in DOMAIN fields /\ fields["user_email"].required

\* a bug: the row's address replaces the one the oracle gave
BackfillUserEmailRowFirst(d, row, fields) ==
  IF NotNa(row.user_email) THEN [d EXCEPT !["user_email"] = row.user_email]
  ELSE IF GetIsNone(d, "user_email") /\ UserEmailRequired(fields)
       THEN [d EXCEPT !["user_email"] = PyStr(PLACEHOLDER_EMAIL)]
       ELSE d

\* the user_email fallback of tier 1 and tier 2 (generic_analysis.py 209-216, 240-246)
BackfillUserEmail(d, row, fields) ==
  IF GetIsNone(d, "user_email")
  THEN IF NotNa(row.user_email) THEN [d EXCEPT !["user_email"] = row.user_email]
       ELSE IF UserEmailRequired(fields)
            THEN [d EXCEPT !["user_email"] = PyStr(PLACEHOLDER_EMAIL)]
            ELSE d
  ELSE d

\* chat_id is filled in only when the data does not have the key (205-206, 236-237)
BackfillChatId(d, row) ==
  IF ~HasKey(d, "chat_id") THEN [d EXCEPT !["chat_id"] = PyInt(row.chat_id)] ELSE d

\* a bug: the timestamp is filled in only when the data has none
SetExtractedAtIfMissing(d, fields, clk) ==
  IF "extracted_at" \in DOMAIN fields /\ GetIsNone(d, "extracted_at")
  THEN [d EXCEPT !["extracted_at"] = IsoTimestamp(clk)]
  ELSE d

\* extracted_at is set whenever the model declares it (220-222, 249-251, 273-275)
SetExtractedAt(d, fields, clk) ==
  IF "extracted_at" \in DOMAIN fields
  THEN [d EXCEPT !["extracted_at"] = IsoTimestamp(clk)]
  ELSE d

\* tier 1 (204-222)
final_data_for_model(coerced_data, row, fields, clk) ==
  SetExtractedAt(BackfillUserEmail(BackfillChatId(coerced_data, row), row, fields), fields, clk)

\* a bug: tier 2 also drops the rating the oracle gave
valid_data_without_rating(final_data, row, fields, clk) ==
  LET kept == [k \in DOMAIN final_data |->
                IF k \in DOMAIN fields /\ k # "rating" THEN final_data[k] ELSE Absent]
  IN  SetExtractedAt(BackfillUserEmail(BackfillChatId(kept, row), row, fields), fields, clk)

\* tier 2 (235-251): the keys of final_data_for_model that are fields
valid_data_for_fallback(final_data, row, fields, clk) ==
  LET kept == [k \in DOMAIN final_data |->
                IF k \in DOMAIN fields THEN final_data[k] ELSE Absent]
  IN  SetExtractedAt(BackfillUserEmail(BackfillChatId(kept, row), row, fields), fields, clk)

\* tier 3 (259-284): the row's identifiers, the timestamp, None for the rest.
\* The placeholder is used only when the row's value is None; pandas' NaN
\* (an empty CSV cell) is not None and stays in the data.
minimal_user_email(row, fields) ==
  IF row.user_email.t = "none"
  THEN IF UserEmailRequired(fields) THEN PyStr(PLACEHOLDER_EMAIL)
       ELSE IF "user_email" \in DOMAIN fields THEN None
       ELSE PyStr(PLACEHOLDER_EMAIL)
  ELSE row.user_email

minimal_data(row, fields, clk, keys) ==
  [k \in keys |->
    CASE k = "chat_id" -> PyInt(row.chat_id)
      [] k = "user_email" -> minimal_user_email(row, fields)
      [] k = "extracted_at" /\ k \in DOMAIN fields -> IsoTimestamp(clk)
      [] k \in DOMAIN fields -> None
      [] OTHER -> Absent]

(***************************************************************************)
(* Inputs                                                                  *)
(***************************************************************************)
MaxRows == 2
MaxChat == 2
MaxGate == 2
MAX_RETRIES == 3

AllKeys == {"chat_id", "user_email", "email", "extracted_at", "rating", "note",
            "education", "extra"}

EducationKeys == {"institution", "graduation_year"}

EducationOptionalConfig ==
  [institution |-> TypeTag("str | None"), graduation_year |-> TypeTag("int | None")]

EducationRequiredConfig ==
  [institution |-> TypeTag("str"), graduation_year |-> TypeTag("int | None")]

\* a group whose scalar child is optional and whose nested child has a
\* required field
EducationNestedConfig ==
  [institution |-> TypeTag("str | None"),
   address |-> NestedMap([city |-> TypeTag("str")])]

\* the schema sections the runs are configured with
SchemaConfigs ==
  << [chat_id |-> TypeTag("int"), user_email |-> TypeTag("EmailStr"),
      extracted_at |-> TypeTag("datetime"), rating |-> TypeTag("Likert | None"),
      note |-> TypeTag("str | None"), education |-> NestedMap(EducationOptionalConfig)],
     [chat_id |-> TypeTag("int"), user_email |-> TypeTag("EmailStr"),
      extracted_at |-> TypeTag("datetime"), rating |-> TypeTag("Likert"),
      note |-> TypeTag("str | None")],
     [chat_id |-> TypeTag("int"), user_email |-> TypeTag("EmailStr | None"),
      rating |-> TypeTag("Likert | None"), note |-> TypeTag("str | None")],
     [chat_id |-> TypeTag("int"), user_email |-> TypeTag("EmailStr | None"),
      extracted_at |-> TypeTag("datetime"), rating |-> TypeTag("Likert"),
      education |-> NestedMap(EducationRequiredConfig)],
     [chat_id |-> TypeTag("int"), user_email |-> TypeTag("EmailStr"),
      rating |-> TypeTag("Likert | None"),
      education |-> NestedMap(EducationNestedConfig)] >>

Json(chat, email, alt, ts, rating, note, edu, extra) ==
  PyDict([chat_id |-> chat, user_email |-> email, email |-> alt, extracted_at |-> ts,
          rating |-> rating, note |-> note, education |-> edu, extra |-> extra])

Education(institution, year) ==
  PyDict([institution |-> institution, graduation_year |-> year])

InvalidJson == [t |-> "invalid", v |-> 0]

(***************************************************************************)
(* State                                                                   *)
(***************************************************************************)
VARIABLES
  config,    \* the YAML file main reads: [schema, prompt_template]
  sink,      \* what main handed to the sink: [called, via, batch]
  df,        \* the rows handed to transform_batch_dynamically: [chat_id, user_email]
  schema,    \* the index in SchemaConfigs of the run's schema section
  gate,      \* MAX_CONCURRENT_REQUESTS, read from the environment at import
  sem,       \* _SEM: [value, waiters]
  tasks,     \* the _run coroutines, in the order gather received them
  ready,     \* the event loop's FIFO of callbacks
  running,   \* the task the event loop is executing, 0 for none
  outer,     \* gather's future: [state, nfinished, exc]
  main,      \* transform_batch_dynamically: "start", "awaiting", "returned", "raised"
  result,    \* the list transform_batch_dynamically returned
  clock      \* the time datetime.utcnow() reads

vars == <<config, sink, df, schema, gate, sem, tasks, ready, running, outer, main, result, clock>>

DynamicModel == create_dynamic_model(SchemaConfigs[schema])

(***************************************************************************)
(* df.groupby("chat_id"): the groups in ascending key order (groupby sorts *)
(* its keys), each with the positions of its rows in input order           *)
(***************************************************************************)
ChatIds(rows) == {rows[i].chat_id : i \in 1..Len(rows)}

RECURSIVE SortedSeq(_)
SortedSeq(S) ==
  IF S = {} THEN <<>>
  ELSE LET m == CHOOSE x \in S : \A y \in S : x <= y
       IN  <<m>> \o SortedSeq(S \ {m})

\* the distinct chat_id values in the order of their first row
RECURSIVE FirstAppearance(_)
FirstAppearance(rows) ==
  IF rows = <<>> THEN <<>>
  ELSE LET before == FirstAppearance(SubSeq(rows, 1, Len(rows) - 1))
           c == rows[Len(rows)].chat_id
       IN  IF \E i \in 1..Len(before) : before[i] = c THEN before ELSE Append(before, c)

\* a bug: groupby(sort=False), the groups in the order of first appearance
GroupKeysUnsorted(rows) == FirstAppearance(rows)

GroupKeys(rows) == SortedSeq(ChatIds(rows))

\* a bug: only the first row of a conversation reaches its extraction
GroupRowsFirst(rows, key) ==
  <<CHOOSE i \in 1..Len(rows) :
      rows[i].chat_id = key /\ \A j \in 1..(i - 1) : rows[j].chat_id # key>>

GroupRows(rows, key) == SelectSeq([i \in 1..Len(rows) |-> i], LAMBDA i : rows[i].chat_id = key)

NewTask(rows, key) ==
  [chat_id |-> key,
   rows |-> GroupRows(rows, key),
   row |-> rows[GroupRows(rows, key)[1]],
   pc |-> "created",
   attempts |-> 0,
   failure |-> "none",
   raw |-> None,
   coerced |-> <<>>,
   final |-> <<>>,
   tried |-> <<>>,
   tier |-> 0,
   log |-> <<>>,
   inst |-> <<>>,
   exc |-> "none"]

(***************************************************************************)
(* asyncio.Semaphore                                                       *)
(***************************************************************************)
\* a bug: the semaphore never reports itself locked
LockedNever(s) == FALSE

\* Semaphore.locked(): no slot left, or somebody is already waiting
Locked(s) == s.value = 0 \/ s.waiters # <<>>

\* Semaphore.release(): one more slot, handed at once to the first waiter
SemRelease(s) ==
  IF s.waiters # <<>> THEN [value |-> s.value, waiters |-> Tail(s.waiters)]
  ELSE [value |-> s.value + 1, waiters |-> s.waiters]

Step(t) == [kind |-> "step", id |-> t]
DoneCb(t) == [kind |-> "done", id |-> t]
MainWakeup == [kind |-> "main", id |-> 0]

(***************************************************************************)
(* transform_batch_dynamically                                             *)
(***************************************************************************)
\* lines 30-31: one coroutine per group, gather schedules a task for each
Gather ==
  /\ main = "start"
  /\ LET keys == GroupKeys(df)
     IN  /\ tasks' = [i \in 1..Len(keys) |-> NewTask(df, keys[i])]
         /\ ready' = [i \in 1..Len(keys) |-> Step(i)]
         /\ IF keys = <<>>
            THEN /\ main' = "returned"
                 /\ outer' = [outer EXCEPT !.state = "result"]
            ELSE /\ main' = "awaiting"
                 /\ outer' = [outer EXCEPT !.state = "pending"]
  /\ UNCHANGED <<config, sink, df, schema, gate, sem, running, result, clock>>

\* line 26, async with _SEM: the task at the head of the ready queue starts
\* (or resumes after a wake-up) and takes a slot, or queues as a waiter
Acquire(t) ==
  /\ running = 0
  /\ ready # <<>> /\ Head(ready) = Step(t)
  /\ tasks[t].pc \in {"created", "woken"}
  /\ ready' = Tail(ready)
  /\ IF tasks[t].pc = "woken"
     THEN /\ tasks' = [tasks EXCEPT ![t].pc = "entered"]
          /\ running' = t
          /\ sem' = sem
     ELSE IF ~Locked(sem)
     THEN /\ sem' = [sem EXCEPT !.value = @ - 1]
          /\ tasks' = [tasks EXCEPT ![t].pc = "entered"]
          /\ running' = t
     ELSE /\ sem' = [sem EXCEPT !.waiters = Append(@, t)]
          /\ tasks' = [tasks EXCEPT ![t].pc = "waiting"]
          /\ running' = 0
  /\ UNCHANGED <<config, sink, df, schema, gate, outer, main, result, clock>>

(***************************************************************************)
(* call_llm (openai_utils.py 16-32): a synchronous request, retried by     *)
(* tenacity up to MAX_RETRIES attempts; the event loop is blocked          *)
(* throughout, so the running task keeps the loop.                         *)
(***************************************************************************)
\* a bug: a missing template falls back to a default one
BuildPromptDefault(t) ==
  /\ running = t
  /\ tasks[t].pc = "entered"
  /\ tasks' = [tasks EXCEPT ![t].pc = "holding"]
  /\ UNCHANGED <<config, sink, df, schema, gate, sem, ready, running, outer, main, result, clock>>

\* analyse_chat_dynamically lines 166-193: the prompt is built from the
\* config's template; a config without one raises KeyError before any request
BuildPrompt(t) ==
  /\ running = t
  /\ tasks[t].pc = "entered"
  /\ IF config.prompt_template
     THEN tasks' = [tasks EXCEPT ![t].pc = "holding"]
     ELSE tasks' = [tasks EXCEPT ![t].pc = "raised", ![t].exc = "KeyError"]
  /\ UNCHANGED <<config, sink, df, schema, gate, sem, ready, running, outer, main, result, clock>>

\* a bug: the request is awaited, so the event loop is free while it lasts
IssueRequestAwaits(t) ==
  /\ running = t
  /\ tasks[t].pc = "holding"
  /\ tasks' = [tasks EXCEPT ![t].pc = "calling", ![t].attempts = @ + 1]
  /\ running' = 0
  /\ UNCHANGED <<config, sink, df, schema, gate, sem, ready, outer, main, result, clock>>

IssueRequest(t) ==
  /\ running = t
  /\ tasks[t].pc = "holding"
  /\ tasks' = [tasks EXCEPT ![t].pc = "calling", ![t].attempts = @ + 1]
  /\ UNCHANGED <<config, sink, df, schema, gate, sem, ready, running, outer, main, result, clock>>

\* a bug: the slot is given back as soon as the request has returned
RequestSucceedsReleases(t, content) ==
  /\ running = t
  /\ tasks[t].pc = "calling"
  /\ tasks' = [tasks EXCEPT ![t].pc = "called", ![t].raw = content, ![t].failure = "none"]
  /\ sem' = [sem EXCEPT !.value = @ + 1]
  /\ UNCHANGED <<config, sink, df, schema, gate, ready, running, outer, main, result, clock>>

\* lines 20-32: the request returned; with schema str the content is returned
\* as it is
RequestSucceeds(t, content) ==
  /\ running = t
  /\ tasks[t].pc = "calling"
  /\ tasks' = [tasks EXCEPT ![t].pc = "called", ![t].raw = content, ![t].failure = "none"]
  /\ UNCHANGED <<config, sink, df, schema, gate, sem, ready, running, outer, main, result, clock>>

\* the kinds of exception openai.chat.completions.create raises
FailureKinds == {"5xx", "4xx"}

\* a bug: the retry stops after the first failed request
RequestFailsOnce(t, kind) ==
  /\ running = t
  /\ tasks[t].pc = "calling"
  /\ tasks' = [tasks EXCEPT ![t].pc = "raised", ![t].exc = "RetryError", ![t].failure = kind]
  /\ UNCHANGED <<config, sink, df, schema, gate, sem, ready, running, outer, main, result, clock>>

\* line 16, @retry(stop=stop_after_attempt(MAX_RETRIES)) with no retry=
\* predicate: every exception of an attempt is retried until the ceiling,
\* then tenacity raises RetryError
RequestFails(t, kind) ==
  /\ running = t
  /\ tasks[t].pc = "calling"
  /\ IF tasks[t].attempts < MAX_RETRIES
     THEN tasks' = [tasks EXCEPT ![t].pc = "holding", ![t].failure = kind]
     ELSE tasks' = [tasks EXCEPT ![t].pc = "raised", ![t].exc = "RetryError",
                                 ![t].failure = kind]
  /\ UNCHANGED <<config, sink, df, schema, gate, sem, ready, running, outer, main, result, clock>>

(***************************************************************************)
(* analyse_chat_dynamically after the oracle's reply (lines 199-287)       *)
(***************************************************************************)
Coerce(t) ==
  /\ running = t
  /\ tasks[t].pc = "called"
  /\ LET r == coerce_llm_output(tasks[t].raw, DynamicModel)
     IN  IF r.exc # "none"
         THEN tasks' = [tasks EXCEPT ![t].pc = "raised", ![t].exc = r.exc]
         ELSE tasks' = [tasks EXCEPT ![t].pc = "tier1", ![t].coerced = r.data]
  /\ UNCHANGED <<config, sink, df, schema, gate, sem, ready, running, outer, main, result, clock>>

\* a bug: a tier-1 failure goes straight to the minimal record
Tier1SkipsTier2(t) ==
  /\ running = t
  /\ tasks[t].pc = "tier1"
  /\ LET data == final_data_for_model(tasks[t].coerced, tasks[t].row, DynamicModel, clock)
         v == model_validate(DynamicModel, data)
     IN  tasks' = [tasks EXCEPT
           ![t].final = data,
           ![t].tried = Append(@, data),
           ![t].pc = IF v.ok THEN "returned" ELSE "tier3",
           ![t].log = IF v.ok THEN @ ELSE Append(@, "tier1 failed"),
           ![t].tier = IF v.ok THEN 1 ELSE 0,
           ![t].inst = IF v.ok THEN v.inst ELSE <<>>]
  /\ clock' = clock + 1
  /\ UNCHANGED <<config, sink, df, schema, gate, sem, ready, running, outer, main, result>>

Tier1(t) ==
  /\ running = t
  /\ tasks[t].pc = "tier1"
  /\ LET data == final_data_for_model(tasks[t].coerced, tasks[t].row, DynamicModel, clock)
         v == model_validate(DynamicModel, data)
     IN  tasks' = [tasks EXCEPT
           ![t].final = data,
           ![t].tried = Append(@, data),
           ![t].pc = IF v.ok THEN "returned" ELSE "tier2",
           ![t].log = IF v.ok THEN @ ELSE Append(@, "tier1 failed"),
           ![t].tier = IF v.ok THEN 1 ELSE 0,
           ![t].inst = IF v.ok THEN v.inst ELSE <<>>]
  /\ clock' = clock + 1
  /\ UNCHANGED <<config, sink, df, schema, gate, sem, ready, running, outer, main, result>>

Tier2(t) ==
  /\ running = t
  /\ tasks[t].pc = "tier2"
  /\ LET data == valid_data_for_fallback(tasks[t].final, tasks[t].row, DynamicModel, clock)
         v == model_validate(DynamicModel, data)
     IN  tasks' = [tasks EXCEPT
           ![t].tried = Append(@, data),
           ![t].pc = IF v.ok THEN "returned" ELSE "tier3",
           ![t].log = IF v.ok THEN @ ELSE Append(@, "tier2 failed"),
           ![t].tier = IF v.ok THEN 2 ELSE 0,
           ![t].inst = IF v.ok THEN v.inst ELSE <<>>]
  /\ clock' = clock + 1
  /\ UNCHANGED <<config, sink, df, schema, gate, sem, ready, running, outer, main, result>>

Tier3(t) ==
  /\ running = t
  /\ tasks[t].pc = "tier3"
  /\ LET data == minimal_data(tasks[t].row, DynamicModel, clock, AllKeys)
         v == model_validate(DynamicModel, data)
     IN  tasks' = [tasks EXCEPT
           ![t].tried = Append(@, data),
           ![t].pc = IF v.ok THEN "returned" ELSE "raised",
           ![t].tier = IF v.ok THEN 3 ELSE 0,
           ![t].inst = IF v.ok THEN v.inst ELSE <<>>,
           ![t].exc = IF v.ok THEN "none" ELSE "ValidationError"]
  /\ clock' = clock + 1
  /\ UNCHANGED <<config, sink, df, schema, gate, sem, ready, running, outer, main, result>>

\* a bug: the slot is given back only when the body returned, as a release
\* written after the body instead of async with would do
ReleaseOnReturn(t) ==
  /\ running = t
  /\ tasks[t].pc \in {"returned", "raised"}
  /\ sem' = IF tasks[t].exc = "none" THEN SemRelease(sem) ELSE sem
  /\ tasks' = [tasks EXCEPT ![t].pc = IF tasks[t].exc = "none" THEN "done" ELSE "failed"]
  /\ ready' = Append(ready, DoneCb(t))
  /\ running' = 0
  /\ UNCHANGED <<config, sink, df, schema, gate, outer, main, result, clock>>

\* the end of async with _SEM: the slot is released whether the body returned
\* or raised, the task is done and its done-callback is scheduled
Release(t) ==
  /\ running = t
  /\ tasks[t].pc \in {"returned", "raised"}
  /\ sem' = SemRelease(sem)
  /\ tasks' = [i \in 1..Len(tasks) |->
                IF i = t THEN [tasks[t] EXCEPT !.pc = IF tasks[t].exc = "none" THEN "done" ELSE "failed"]
                ELSE IF sem.waiters # <<>> /\ i = Head(sem.waiters)
                     THEN [tasks[i] EXCEPT !.pc = "woken"]
                ELSE tasks[i]]
  /\ ready' = (IF sem.waiters # <<>> THEN Append(ready, Step(Head(sem.waiters))) ELSE ready)
                \o <<DoneCb(t)>>
  /\ running' = 0
  /\ UNCHANGED <<config, sink, df, schema, gate, outer, main, result, clock>>

\* a bug: gather(return_exceptions=True), a failed task counts as a result
DoneCallbackCollects(t) ==
  /\ running = 0
  /\ main = "awaiting"
  /\ ready # <<>> /\ Head(ready) = DoneCb(t)
  /\ IF outer.nfinished + 1 = Len(tasks)
     THEN /\ outer' = [outer EXCEPT !.state = "result", !.nfinished = @ + 1]
          /\ ready' = Append(Tail(ready), MainWakeup)
     ELSE /\ outer' = [outer EXCEPT !.nfinished = @ + 1]
          /\ ready' = Tail(ready)
  /\ UNCHANGED <<config, sink, df, schema, gate, sem, tasks, running, main, result, clock>>

\* gather's _done_callback: the first exception, or the last result, resolves
\* the outer future and wakes transform_batch_dynamically
DoneCallback(t) ==
  /\ running = 0
  /\ main = "awaiting"
  /\ ready # <<>> /\ Head(ready) = DoneCb(t)
  /\ IF outer.state # "pending"
     THEN /\ outer' = outer
          /\ ready' = Tail(ready)
     ELSE IF tasks[t].pc = "failed"
     THEN /\ outer' = [outer EXCEPT !.state = "exception", !.exc = tasks[t].exc]
          /\ ready' = Append(Tail(ready), MainWakeup)
     ELSE IF outer.nfinished + 1 = Len(tasks)
     THEN /\ outer' = [outer EXCEPT !.state = "result", !.nfinished = @ + 1]
          /\ ready' = Append(Tail(ready), MainWakeup)
     ELSE /\ outer' = [outer EXCEPT !.nfinished = @ + 1]
          /\ ready' = Tail(ready)
  /\ UNCHANGED <<config, sink, df, schema, gate, sem, tasks, running, main, result, clock>>

\* line 31: await gather returns the results in the order of its arguments,
\* or raises the exception gather propagated
MainResume ==
  /\ running = 0
  /\ main = "awaiting"
  /\ ready # <<>> /\ Head(ready) = MainWakeup
  /\ ready' = Tail(ready)
  /\ IF outer.state = "result"
     THEN /\ main' = "returned"
          /\ result' = [i \in 1..Len(tasks) |-> tasks[i].inst]
     ELSE /\ main' = "raised"
          /\ result' = result
  /\ UNCHANGED <<config, sink, df, schema, gate, sem, tasks, running, outer, clock>>

(***************************************************************************)
(* Specification of a batch                                                *)
(***************************************************************************)
Row(chat, email) == [chat_id |-> chat, user_email |-> email]

RECURSIVE SeqsUpTo(_, _)
SeqsUpTo(S, n) ==
  IF n = 0 THEN {<<>>}
  ELSE LET shorter == SeqsUpTo(S, n - 1)
       IN  shorter \cup {Append(q, x) : q \in shorter, x \in S}

BatchRows == {Row(c, PyStr(RowEmail)) : c \in 1..MaxChat}

GoodJson ==
  Json(Absent, Absent, Absent, Absent, PyStr(TxtVerySatisfied), PyStr(TxtHello), Absent, Absent)

JunkRatingJson ==
  Json(Absent, Absent, Absent, Absent, PyStr(TxtNotARating), Absent, Absent, Absent)

\* what the oracle answers in a batch
BatchReplies == {InvalidJson, GoodJson, JunkRatingJson}

BatchSchemas == {1, 2}

\* a config with a schema section and a prompt template
GoodConfig == [schema |-> "ok", prompt_template |-> TRUE]

NoSink == [called |-> FALSE, via |-> "none", batch |-> <<>>]

Init ==
  /\ config = GoodConfig
  /\ sink = NoSink
  /\ df \in SeqsUpTo(BatchRows, MaxRows)
  /\ schema \in BatchSchemas
  /\ gate \in 0..MaxGate
  /\ sem = [value |-> gate, waiters |-> <<>>]
  /\ tasks = <<>>
  /\ ready = <<>>
  /\ running = 0
  /\ outer = [state |-> "none", nfinished |-> 0, exc |-> "none"]
  /\ main = "start"
  /\ result = <<>>
  /\ clock = 0

TaskIds == 1..Len(tasks)

Next ==
  \/ Gather
  \/ \E t \in TaskIds : Acquire(t)
  \/ \E t \in TaskIds : BuildPrompt(t)
  \/ \E t \in TaskIds : IssueRequest(t)
  \/ \E t \in TaskIds : \E content \in BatchReplies : RequestSucceeds(t, content)
  \/ \E t \in TaskIds : \E kind \in FailureKinds : RequestFails(t, kind)
  \/ \E t \in TaskIds : Coerce(t)
  \/ \E t \in TaskIds : Tier1(t)
  \/ \E t \in TaskIds : Tier2(t)
  \/ \E t \in TaskIds : Tier3(t)
  \/ \E t \in TaskIds : Release(t)
  \/ \E t \in TaskIds : DoneCallback(t)
  \/ MainResume

Spec == Init /\ [][Next]_vars

(***************************************************************************)
(* main (__init__.py 89-122): the config is read and the Record Type built *)
(* before the CSV is loaded; the batch goes to the sink only when          *)
(* transform_batch_dynamically has returned.                               *)
(***************************************************************************)
\* lines 96-101: yaml.safe_load, then load_config_and_create_model, which
\* raises ValueError for a missing or empty schema section and for a field
\* that is neither a type string nor a map
LoadConfig ==
  /\ main = "config"
  /\ main' = IF config.schema = "ok" THEN "loaded" ELSE "raised"
  /\ UNCHANGED <<config, sink, df, schema, gate, sem, tasks, ready, running, outer, result, clock>>

RECURSIVE ConcatGroups(_, _)
ConcatGroups(rows, keys) ==
  IF keys = <<>> THEN <<>>
  ELSE SelectSeq(rows, LAMBDA r : r.chat_id = Head(keys)) \o ConcatGroups(rows, Tail(keys))

\* load_chats: the rows of the CSV sorted by chat_id
load_chats(rows) == ConcatGroups(rows, SortedSeq(ChatIds(rows)))

\* line 103
LoadChats(rows) ==
  /\ main = "loaded"
  /\ df' = load_chats(rows)
  /\ main' = "start"
  /\ UNCHANGED <<config, sink, schema, gate, sem, tasks, ready, running, outer, result, clock>>

\* lines 108-122: the CSV writer when an output path was given, else load_batch
HandToSink(via) ==
  /\ main = "returned"
  /\ ~sink.called
  /\ sink' = [called |-> TRUE, via |-> via, batch |-> result]
  /\ UNCHANGED <<config, df, schema, gate, sem, tasks, ready, running, outer, main, result, clock>>

SchemaSections == {"ok", "missing", "malformed"}

Configs == {[schema |-> s, prompt_template |-> p] : s \in SchemaSections, p \in BOOLEAN}

Sinks == {"csv", "load_batch"}

InitMain ==
  /\ config \in Configs
  /\ sink = NoSink
  /\ df = <<>>
  /\ schema \in BatchSchemas
  /\ gate \in 0..MaxGate
  /\ sem = [value |-> gate, waiters |-> <<>>]
  /\ tasks = <<>>
  /\ ready = <<>>
  /\ running = 0
  /\ outer = [state |-> "none", nfinished |-> 0, exc |-> "none"]
  /\ main = "config"
  /\ result = <<>>
  /\ clock = 0

NextMain ==
  \/ LoadConfig
  \/ \E rows \in SeqsUpTo(BatchRows, MaxRows) : LoadChats(rows)
  \/ Gather
  \/ \E t \in TaskIds : Acquire(t)
  \/ \E t \in TaskIds : BuildPrompt(t)
  \/ \E t \in TaskIds : IssueRequest(t)
  \/ \E t \in TaskIds : \E content \in BatchReplies : RequestSucceeds(t, content)
  \/ \E t \in TaskIds : \E kind \in FailureKinds : RequestFails(t, kind)
  \/ \E t \in TaskIds : Coerce(t)
  \/ \E t \in TaskIds : Tier1(t)
  \/ \E t \in TaskIds : Tier2(t)
  \/ \E t \in TaskIds : Tier3(t)
  \/ \E t \in TaskIds : Release(t)
  \/ \E t \in TaskIds : DoneCallback(t)
  \/ MainResume
  \/ \E via \in Sinks : HandToSink(via)

SpecMain == InitMain /\ [][NextMain]_vars

(***************************************************************************)
(* Specification of one extraction: analyse_chat_dynamically from the      *)
(* moment call_llm has returned the oracle's JSON object, for every schema *)
(* section, every kind of input row and a range of oracle answers.         *)
(***************************************************************************)
\* the first row of the conversation: an address, an empty CSV cell (NaN),
\* or None in a frame built by hand
RowEmails == {PyStr(RowEmail), NaN, None}

OracleChatIds == {Absent, None, PyInt(2)}

OracleUserEmails == {Absent, None, PyStr(TxtBlank), PyStr(OracleEmail)}

OracleTimestamps == {Absent, None, PyStr(Txt7)}

RatingNumbers ==
  {PyInt(0), PyInt(3), PyInt(7), PyFloat(46), PyFloat(25), PyFloat(73), PyFloat(2), Inf}

RatingTexts ==
  {PyStr(TxtVerySatisfied), PyStr(TxtVerySatisfiedPadded), PyStr(TxtNeutral),
   PyStr(TxtNotARating), PyStr(TxtRated4Of5), PyStr(Txt4_6), PyStr(Txt2_5),
   PyStr(Txt7), PyStr(Txt3), PyStr(Txt0), PyStr(TxtMinus3), PyStr(TxtInf),
   PyStr(TxtNan), PyStr(TxtEmpty), PyStr(TxtBlank)}

RatingValues == RatingNumbers \cup RatingTexts \cup {Absent, None}

Notes == {Absent, PyStr(TxtBlank), PyStr(TxtHello)}

Educations ==
  {Education(PyStr(TxtBlank), Absent),
   Education(PyStr(TxtMIT), PyStr(TxtClassOf2020)),
   Education(PyStr(TxtEmpty), PyInt(2020)),
   Education(Absent, PyStr(TxtBlank)),
   PyList(<<Education(PyStr(TxtMIT), Absent)>>),
   PyStr(TxtBlank),
   None}

\* answers that vary the identifiers and the timestamp
IdentifierJsons ==
  {Json(c, e, alt, ts, r, Absent, Absent, Absent) :
     c \in OracleChatIds, e \in OracleUserEmails, alt \in {Absent, PyStr(OracleEmail)},
     ts \in OracleTimestamps, r \in {Absent, PyInt(3), PyStr(TxtNotARating)}}

\* answers that vary the rating
RatingJsons ==
  {Json(Absent, Absent, Absent, Absent, r, n, Absent, x) :
     r \in RatingValues, n \in Notes, x \in {Absent, PyInt(1)}}

\* answers that vary the nested group
GroupJsons ==
  {Json(Absent, e, Absent, Absent, PyInt(3), n, edu, Absent) :
     e \in {Absent, PyStr(OracleEmail)}, n \in {Absent, PyStr(TxtBlank)}, edu \in Educations}

ExtractJsons == IdentifierJsons \cup RatingJsons \cup GroupJsons

InitExtract ==
  /\ config = GoodConfig
  /\ sink = NoSink
  /\ \E email \in RowEmails : df = <<Row(1, email)>>
  /\ schema \in 1..Len(SchemaConfigs)
  /\ gate = 1
  /\ sem = [value |-> 0, waiters |-> <<>>]
  /\ \E content \in ExtractJsons :
       tasks = <<[NewTask(df, 1) EXCEPT !.pc = "called", !.attempts = 1, !.raw = content]>>
  /\ ready = <<>>
  /\ running = 1
  /\ outer = [state |-> "pending", nfinished |-> 0, exc |-> "none"]
  /\ main = "awaiting"
  /\ result = <<>>
  /\ clock = 0

NextExtract ==
  \/ \E t \in TaskIds : Coerce(t)
  \/ \E t \in TaskIds : Tier1(t)
  \/ \E t \in TaskIds : Tier2(t)
  \/ \E t \in TaskIds : Tier3(t)

SpecExtract == InitExtract /\ [][NextExtract]_vars

(***************************************************************************)
(* Properties                                                              *)
(***************************************************************************)
SameValue(a, b) == a.t = b.t /\ a.v = b.v

ResultChatIds == [i \in 1..Len(result) |-> result[i]["chat_id"].v]

SortedByChat(rows) ==
  \A i \in 1..Len(rows), j \in 1..Len(rows) : i < j => rows[i].chat_id <= rows[j].chat_id

\* C1 as claimed: the returned list holds the records in the order in which
\* their chat_id first appears in the input rows.
C1_FirstAppearanceOrder ==
  main = "returned" => ResultChatIds = FirstAppearance(df)

\* C1 as amended: the returned list holds one record per chat_id in ascending
\* chat_id order, which is the order of first appearance whenever the input
\* rows are ordered by chat_id.
C1_AscendingOrder ==
  main = "returned" =>
    /\ {ResultChatIds[i] : i \in 1..Len(result)} = ChatIds(df)
    /\ \A i \in 1..Len(result), j \in 1..Len(result) :
         i < j => ResultChatIds[i] < ResultChatIds[j]
    /\ SortedByChat(df) => ResultChatIds = FirstAppearance(df)

C1_Witness ==
  /\ main = "returned"
  /\ Len(result) >= 2
  /\ ResultChatIds # FirstAppearance(df)

\* the oracle calls issued and not yet completed
Outstanding == {t \in TaskIds : tasks[t].pc = "calling"}

\* C2: with a gate of N and more than N conversations, at most N oracle
\* calls are outstanding in every reachable state.
C2_ConcurrencyBound ==
  Len(tasks) > gate => Cardinality(Outstanding) <= gate

C2_Witness ==
  /\ gate >= 1
  /\ Len(tasks) > gate
  /\ Cardinality(Outstanding) = gate

Raw(t) == tasks[t].raw.v
Record(t) == tasks[t].inst
Returned(t) == tasks[t].pc \in {"returned", "done"}
Declared(key) == key \in DOMAIN DynamicModel

\* _coerce_llm_output has returned for task t
CoercionDone(t) == tasks[t].pc = "tier1" \/ Len(tasks[t].tried) >= 1

\* C3 as claimed: whatever JSON object the oracle returned, the tier-3
\* minimal record validates, so analyse_chat_dynamically does not raise.
C3_Tier3AlwaysValidates ==
  \A t \in TaskIds :
    IsDict(tasks[t].raw) /\ Len(tasks[t].tried) = 3 => tasks[t].exc # "ValidationError"

\* C4 as claimed: the chat_id of every returned record is the chat_id of the
\* input rows.
C4_ChatIdFromInput ==
  \A t \in TaskIds :
    Returned(t) => SameValue(Record(t)["chat_id"], PyInt(tasks[t].row.chat_id))

\* the oracle supplied a non-empty user_email
OracleEmailGiven(t) ==
  IsStr(Raw(t)["user_email"]) /\ ~IsBlank(Raw(t)["user_email"].v)

\* the oracle's value, else the row's, else the placeholder for a required field
EmailPrecedence(t, email) ==
  IF OracleEmailGiven(t) THEN SameValue(email, Raw(t)["user_email"])
  ELSE IF NotNa(tasks[t].row.user_email) THEN SameValue(email, tasks[t].row.user_email)
  ELSE UserEmailRequired(DynamicModel) => SameValue(email, PyStr(PLACEHOLDER_EMAIL))

\* C5 as claimed: in whichever tier produced the record, its user_email is the
\* oracle's non-empty value, else the input row's, else the placeholder when
\* the field is required.
C5_EmailPrecedenceAnyTier ==
  \A t \in TaskIds :
    Returned(t) /\ Declared("user_email") => EmailPrecedence(t, Record(t)["user_email"])

\* C5 as amended: that precedence holds of a record of tier 1 or tier 2; a
\* tier-3 record never carries the oracle's value: it has the input row's
\* value, or the placeholder when the row has none and the field is required.
C5_EmailPrecedenceByTier ==
  \A t \in TaskIds :
    Returned(t) /\ Declared("user_email") =>
      IF tasks[t].tier \in {1, 2}
      THEN EmailPrecedence(t, Record(t)["user_email"])
      ELSE IF NotNa(tasks[t].row.user_email)
           THEN SameValue(Record(t)["user_email"], tasks[t].row.user_email)
           ELSE UserEmailRequired(DynamicModel) =>
                  SameValue(Record(t)["user_email"], PyStr(PLACEHOLDER_EMAIL))

C5_Witness ==
  \E t \in TaskIds :
    /\ Returned(t)
    /\ tasks[t].tier = 3
    /\ OracleEmailGiven(t)
    /\ SameValue(Record(t)["user_email"], tasks[t].row.user_email)
    /\ ~SameValue(Record(t)["user_email"], Raw(t)["user_email"])

\* C6: when the Record Type declares extracted_at, the data every tier
\* validates carries a timestamp the engine wrote, and the returned record
\* holds the timestamp of the tier that produced it, never the oracle's value.
C6_EngineTimestamp ==
  \A t \in TaskIds :
    Declared("extracted_at") =>
      /\ \A i \in 1..Len(tasks[t].tried) :
           /\ tasks[t].tried[i]["extracted_at"].t = "ts"
           /\ tasks[t].tried[i]["extracted_at"].v < clock
      /\ Returned(t) =>
           /\ Record(t)["extracted_at"].t = "datetime"
           /\ Record(t)["extracted_at"].v
                = tasks[t].tried[Len(tasks[t].tried)]["extracted_at"].v

C6_Witness ==
  \E t \in TaskIds :
    /\ Declared("extracted_at")
    /\ Returned(t)
    /\ Len(tasks[t].tried) = 3
    /\ Raw(t)["extracted_at"].t = "str"

\* the value the Likert enum is asked to accept for the rating
CoercedRating(t) == parse_arabic_likert_string(tasks[t].coerced["rating"])

\* C7 as claimed: a numeric rating is rounded to the nearest integer and
\* clamped into 1..5.
C7_NumericRatingClamped ==
  \A t \in TaskIds :
    /\ Declared("rating")
    /\ CoercionDone(t)
    /\ Raw(t)["rating"].t \in {"int", "float"}
    => SameValue(CoercedRating(t),
                 PyInt(Clamp(IF Raw(t)["rating"].t = "int" THEN Raw(t)["rating"].v
                             ELSE RoundTenths(Raw(t)["rating"].v))))

\* what C8 says a text becomes: the phrase table's value, else the clamped
\* first run of digits, else the text itself
RatingOfText(text) ==
  IF LikertMapGet(LowerStr(Strip(text))) # 0 THEN PyInt(LikertMapGet(LowerStr(Strip(text))))
  ELSE IF FirstDigitRun(text) # <<>> THEN PyInt(Clamp(DigitsToInt(FirstDigitRun(text))))
  ELSE PyStr(text)

\* C8 as claimed: coercing a text rating raises nothing and gives the phrase
\* table's value, else the clamped embedded integer, else the text unchanged.
C8_TextRatingCoercion ==
  \A t \in TaskIds :
    /\ Declared("rating")
    /\ IsDict(tasks[t].raw)
    /\ IsStr(Raw(t)["rating"])
    /\ ~IsBlank(Raw(t)["rating"].v)
    => /\ tasks[t].exc # "OverflowError"
       /\ CoercionDone(t) => SameValue(CoercedRating(t), RatingOfText(Raw(t)["rating"].v))

\* coercion returned the oracle's rating unchanged and it is no rating
RatingUninterpreted(t) ==
  /\ Declared("rating")
  /\ CoercionDone(t)
  /\ Raw(t)["rating"].t \in {"str", "int"}
  /\ SameValue(CoercedRating(t), Raw(t)["rating"])
  /\ ~(Raw(t)["rating"].t = "int" /\ Raw(t)["rating"].v \in 1..5)

\* the oracle's JSON holds nothing but the rating and the row has an address
OnlyRating(t) ==
  /\ \A key \in AllKeys \ {"rating"} : ~HasKey(Raw(t), key)
  /\ NotNa(tasks[t].row.user_email)

Tier1Tried(t) == Len(tasks[t].tried) >= 1

IsBlankText(x) == IsStr(x) /\ IsBlank(x.v)

\* C10 as claimed: after the coercion pass no declared field holds an empty or
\* white-space-only text, at the top level or inside a nested group.
C10_NoBlankText ==
  \A t \in TaskIds :
    CoercionDone(t) =>
      \A key \in DOMAIN DynamicModel :
        /\ ~IsBlankText(tasks[t].coerced[key])
        /\ IsDict(tasks[t].coerced[key]) =>
             \A inner \in DOMAIN tasks[t].coerced[key].v :
               ~IsBlankText(tasks[t].coerced[key].v[inner])

\* C11: a successful run returns as many records as the input has distinct
\* chat_id values, one task per conversation, and each task was given all and
\* only the rows of its conversation, in their input order.
C11_OneRecordPerConversation ==
  /\ \A t \in TaskIds :
       /\ \A i \in 1..Len(tasks[t].rows), j \in 1..Len(tasks[t].rows) :
            i < j => tasks[t].rows[i] < tasks[t].rows[j]
       /\ \A i \in 1..Len(df) :
            df[i].chat_id = tasks[t].chat_id
              <=> \E k \in 1..Len(tasks[t].rows) : tasks[t].rows[k] = i
  /\ \A t \in TaskIds, u \in TaskIds : t # u => tasks[t].chat_id # tasks[u].chat_id
  /\ main = "returned" =>
       /\ Len(result) = Cardinality(ChatIds(df))
       /\ Len(result) = Len(tasks)

C11_Witness ==
  /\ main = "returned"
  /\ Len(df) = 2
  /\ Len(result) = 2
  /\ tasks[1].rows # tasks[2].rows

\* call_llm has returned or raised for a task in one of these positions
AfterCall == {"called", "tier1", "tier2", "tier3", "returned", "raised", "done", "failed"}

\* C12: one call_llm invocation makes at most MAX_RETRIES requests; once a
\* request has succeeded its content is what the call returned and no further
\* request is issued; when MAX_RETRIES requests have failed the call raises
\* RetryError, which no tier catches: the task ends with that exception.
C12_RetryCeiling ==
  /\ [](\A t \in TaskIds :
         /\ tasks[t].attempts <= MAX_RETRIES
         /\ tasks[t].exc = "RetryError" =>
              /\ tasks[t].attempts = MAX_RETRIES
              /\ tasks[t].pc \in {"raised", "failed"}
              /\ tasks[t].tried = <<>>
              /\ tasks[t].tier = 0)
  /\ [][\A t \in TaskIds :
          /\ tasks[t].pc \in AfterCall =>
               /\ tasks'[t].attempts = tasks[t].attempts
               /\ tasks'[t].raw = tasks[t].raw
               /\ tasks'[t].pc \in AfterCall
          /\ tasks[t].pc = "calling" /\ tasks'[t].pc = "raised" =>
               tasks[t].attempts = MAX_RETRIES
          /\ tasks[t].pc = "calling" /\ tasks'[t].pc = "called" =>
               tasks'[t].raw \in BatchReplies]_vars

C12_Witness ==
  \E t \in TaskIds :
    /\ tasks[t].exc = "RetryError"
    /\ tasks[t].attempts = MAX_RETRIES
    /\ tasks[t].pc = "failed"

\* the oracle call of task t failed after its last retry
OracleFailed(t) == tasks[t].exc = "RetryError"

\* C13: when the oracle call of one conversation has failed after its
\* retries, transform_batch_dynamically never returns a list and raises once
\* the event loop has nothing left to run, and main hands nothing to the sink,
\* whatever the other conversations produced.
C13_OracleFailureFailsBatch ==
  /\ (\E t \in TaskIds : OracleFailed(t)) =>
       /\ main # "returned"
       /\ result = <<>>
       /\ ~sink.called
       /\ (ready = <<>> /\ running = 0 /\ \A t \in TaskIds : tasks[t].pc \in {"done", "failed"})
            => main = "raised"
  /\ main = "raised" => ~sink.called

C13_Witness ==
  /\ main = "raised"
  /\ ~sink.called
  /\ \E t \in TaskIds : OracleFailed(t)
  /\ \E t \in TaskIds : tasks[t].pc = "done"

\* the config lacks a usable schema section or the prompt template
BadConfig == config.schema # "ok" \/ ~config.prompt_template

NoRequestIssued == \A t \in TaskIds : tasks[t].attempts = 0

InsideGate ==
  {"entered", "holding", "calling", "called", "tier1", "tier2", "tier3", "returned", "raised"}

\* the positions in which a task runs coercion, backfill or validation
Processing == {"called", "tier1", "tier2", "tier3"}

\* C15 as claimed: a task that runs coercion, identifier backfill or
\* validation holds no slot of the admission gate: every slot is free.
C15_SlotHeldOnlyDuringRequest ==
  \A t \in TaskIds : tasks[t].pc \in Processing => sem.value = gate

\* C15 as amended: a task holds its slot for the whole of
\* analyse_chat_dynamically: from before the prompt is built and the request
\* issued, through coercion, backfill and validation, until the function has
\* returned or raised.
C15_SlotHeldThroughExtraction ==
  \A t \in TaskIds :
    /\ tasks[t].pc \in InsideGate => sem.value < gate /\ running = t
    /\ tasks[t].pc \in {"created", "waiting", "done", "failed"} => running # t

C15_Witness ==
  \E t \in TaskIds :
    /\ tasks[t].pc = "tier2"
    /\ gate >= 1
    /\ sem.value = gate - 1

\* C16 as claimed: a further request follows only a transport/5xx failure;
\* after an attempt that failed with a client-side 4xx error call_llm issues
\* no other request and raises.
C16_RetryOnlyOn5xx ==
  \A t \in TaskIds :
    tasks[t].failure = "4xx" => tasks[t].pc \in {"raised", "failed"}

\* the failures reported once the first n tiers have failed
TierReports(n) == SubSeq(<<"tier1 failed", "tier2 failed">>, 1, IF n > 2 THEN 2 ELSE n)

\* C17: the tiers are attempted in the order 1, 2, 3, each only after every
\* earlier tier failed validation and its failure was reported; the record
\* returned is the one the first validating tier produced.
C17_TierOrder ==
  \A t \in TaskIds :
    LET n == Len(tasks[t].tried)
        k == tasks[t].tier
    IN  /\ n <= 3
        /\ tasks[t].pc = "tier1" => n = 0 /\ tasks[t].log = <<>>
        /\ tasks[t].pc = "tier2" => n = 1 /\ tasks[t].log = TierReports(1)
        /\ tasks[t].pc = "tier3" => n = 2 /\ tasks[t].log = TierReports(2)
        /\ k # 0 =>
             /\ n = k
             /\ tasks[t].log = TierReports(k - 1)
             /\ model_validate(DynamicModel, tasks[t].tried[k]).ok
             /\ tasks[t].inst = model_validate(DynamicModel, tasks[t].tried[k]).inst
             /\ Returned(t)
        /\ \A i \in 1..n : i # k => ~model_validate(DynamicModel, tasks[t].tried[i]).ok
        /\ Returned(t) => k \in 1..3

C17_Witness ==
  \E t \in TaskIds :
    /\ Returned(t)
    /\ tasks[t].tier = 3
    /\ Len(tasks[t].tried) = 3
    /\ tasks[t].log = TierReports(2)

\* C18 as claimed: an education group the oracle returned as a list of one
\* object is, after the coercion pass, that object (a map), not the list.
C18_SingleElementListCollapsed ==
  \A t \in TaskIds :
    /\ Declared("education")
    /\ CoercionDone(t)
    /\ Raw(t)["education"].t = "list"
    /\ Len(Raw(t)["education"].v) = 1
    => SameValue(tasks[t].coerced["education"], Raw(t)["education"].v[1])

\* every scalar child of a nested map carries the optional marker
ScalarChildrenOptional(cfg) ==
  \A child \in DOMAIN cfg : cfg[child].kind = "str" => HasNoneMarker(cfg[child].tag)

\* C19 as claimed: a nested field is optional in its parent exactly when all
\* its own scalar children carry the optional marker (or it has none);
\* map-valued children do not count.
C19_NestedOptionalPolicy ==
  \A key \in DOMAIN SchemaConfigs[schema] :
    SchemaConfigs[schema][key].kind = "dict" =>
      (DynamicModel[key].annotation.opt
         <=> ScalarChildrenOptional(SchemaConfigs[schema][key].sub))

\* the tasks inside the body of async with _SEM
TasksInsideGate == {t \in TaskIds : tasks[t].pc \in InsideGate}

C21_Tier2NeverRescues ==
  \A t \in TaskIds :
    /\ tasks[t].tier # 2
    /\ Len(tasks[t].tried) >= 2 =>
         /\ \A key \in DOMAIN DynamicModel :
              IF key = "extracted_at"
              THEN /\ tasks[t].tried[1][key].t = "ts"
                   /\ tasks[t].tried[2][key].t = "ts"
              ELSE SameValue(tasks[t].tried[2][key], tasks[t].tried[1][key])
         /\ ~model_validate(DynamicModel, tasks[t].tried[1]).ok
         /\ ~model_validate(DynamicModel, tasks[t].tried[2]).ok
         /\ tasks[t].pc = "tier3" \/ tasks[t].tier = 3 \/ tasks[t].exc = "ValidationError"

C21_Witness ==
  \E t \in TaskIds :
    /\ Returned(t)
    /\ tasks[t].tier = 3
    /\ Len(tasks[t].tried) = 3
    /\ HasKey(Raw(t), "extra")
    /\ HasKey(Raw(t), "rating")

\* the tasks that own a slot of _SEM: those inside async with, and a waiter
\* that release() has already handed its slot to
SlotHolders == {t \in TaskIds : tasks[t].pc \in InsideGate \cup {"woken"}}

Finished(t) == tasks[t].pc \in {"done", "failed"}

\* C22: the free slots plus the slots held by tasks equal
\* MAX_CONCURRENT_REQUESTS in every reachable state; a task that has raised
\* holds no slot; and once every task of the batch has finished, or the batch
\* function itself has returned or raised, every slot is free and nobody
\* waits, so the module-level gate is as it was before the batch.
C22_SlotsConserved ==
  /\ sem.value \in 0..gate
  /\ sem.value + Cardinality(SlotHolders) = gate
  /\ \A t \in TaskIds : tasks[t].pc \in {"raised", "failed"} =>
         /\ tasks[t].exc \in {"KeyError", "RetryError", "JSONDecodeError", "ValidationError", "OverflowError"}
         /\ tasks[t].pc = "failed" => t \notin SlotHolders
  /\ (main \in {"returned", "raised"} \/ (tasks # <<>> /\ \A t \in TaskIds : Finished(t))) =>
         /\ sem.value = gate
         /\ sem.waiters = <<>>

C22_Witness ==
  /\ gate >= 1
  /\ Len(tasks) = 2
  /\ tasks[1].pc = "failed"
  /\ tasks[2].pc = "done"
  /\ main = "raised"
  /\ sem.value = gate

====
